---------------------------- MODULE Spec2Model ----------------------------
(***************************************************************************)
(* Model of the trust-and-routing core of the ThingsIX packet forwarder:   *)
(*   forwarder/utils.go  - address translation, trust-map build, router    *)
(*                         table refresh (on chain and ThingsIX API),      *)
(*                         dialRPCNode                                     *)
(*   gateway/gateway.go  - gateway identifiers derived from the key        *)
(*                                                                         *)
(* One behaviour runs one function of the package.  `fn` names it and `pc` *)
(* is the position inside it.  The variables a function does not use keep  *)
(* the values of Idle.                                                     *)
(***************************************************************************)
EXTENDS Integers, Sequences, FiniteSets

VARIABLES
    fn,              \* the function that runs in this behaviour
    pc,              \* position inside fn
    cfg,             \* *Config: the fields fn reads
    err,             \* the error fn returned ("nil" when none)
    conn,            \* state of the RPC connection: "none", "open", "closed"
    client,          \* what dialRPCNode returned: "nil" or "client"
    callOpts,        \* bind.CallOpts built by the updater (BlockNumber)
    routerCount,     \* result of registry.RouterCount, -1 before the read
    i,               \* loop variable of the paging loop / the snapshot loop
    routers,         \* the list an updater builds and returns
    reads,           \* every registry read made, with the block it was made at
    head,            \* the chain head of the RPC node
    snapshot,        \* the decoded ThingsIX API snapshot
    store,           \* store.Gateways(): the gateway inventory
    trustedGatewaysByLocalID,    \* map[lorawan.EUI64]*gateway.Gateway
    trustedGatewaysByNetworkID,  \* map[lorawan.EUI64]*gateway.Gateway
    rgws,            \* the registry's answer to each lookup made, in order
    interval,        \* the refresh interval returned with an updater, -1 before
    gw,              \* the *gateway.Gateway handed to an address translation
    frame,           \* the frame or ack handed to an address translation
    priv,            \* the private keys gateways are made from
    id,              \* a network id of a registry entry or a snapshot entry
    netids           \* the NetID each source decodes id to

chainVars == << conn, client, callOpts, routerCount >>
trustVars == << store, trustedGatewaysByLocalID, trustedGatewaysByNetworkID, rgws >>

pureVars == << interval, gw, frame, priv, id, netids >>

vars == << fn, pc, cfg, err, i, routers, reads, head, snapshot, chainVars,
           trustVars, pureVars >>

---------------------------------------------------------------------------
(* Bounds of the model *)

\* chain heads the RPC node may report: 0..MaxHead
MaxHead == 2
\* configured confirmations: 0..MaxConfirmations
MaxConfirmations == 2
\* router counts the registry may report: 0..MaxRouterCount (more than a page)
MaxRouterCount == 52

\* chain ids in play; the configured one and a foreign one
ChainIDs == {137, 80001}

Min(a, b) == IF a < b THEN a ELSE b

\* the sequence f(lo), f(lo+1), ..., f(hi-1)
RECURSIVE Range(_, _)
Range(lo, hi) == IF lo >= hi THEN << >> ELSE << lo >> \o Range(lo + 1, hi)

---------------------------------------------------------------------------
(* NetID decoding.  A network id is a uint32; the model's integers are     *)
(* signed 32-bit, so the ids it draws are the uint32 values below 2^31    *)
(* (top byte 0..127), which decode exactly as in the code.                *)

Byte(v, n) == (v \div (2 ^ (8 * n))) % 256

\* binary.BigEndian.PutUint32(netid[:], uint32(v)): most significant byte first
BigEndianPutUint32(v) == << Byte(v, 3), Byte(v, 2), Byte(v, 1), Byte(v, 0) >>

\* binary.LittleEndian.PutUint32(netid[:], v): least significant byte first
LittleEndianPutUint32(v) == << Byte(v, 0), Byte(v, 1), Byte(v, 2), Byte(v, 3) >>

\* on-chain source: lorawan.NetID{netid[1], netid[2], netid[3]}  (Go indexes from 0)
ChainNetID(v) ==
    LET netid == BigEndianPutUint32(v)
    IN  << netid[2], netid[3], netid[4] >>

\* ThingsIX API source: lorawan.NetID{netid[0], netid[1], netid[2]}
APINetID(v) ==
    LET netid == LittleEndianPutUint32(v)
    IN  << netid[1], netid[2], netid[3] >>

ChainNetIDs(networks) == [ n \in 1..Len(networks) |-> ChainNetID(networks[n]) ]

APINetIDs(networks) == [ n \in 1..Len(networks) |-> APINetID(networks[n]) ]

---------------------------------------------------------------------------
(* Values of the variables a function does not use *)

NoOpts == [ pinned |-> FALSE, BlockNumber |-> 0 ]

IdleChain ==
    /\ conn = "none"
    /\ client = "nil"
    /\ callOpts = NoOpts
    /\ routerCount = -1

IdleAPI == snapshot = [ ChainID |-> 0, Routers |-> << >> ]

NoGateway == [ nil |-> TRUE, LocalGatewayID |-> << >>, NetworkGatewayID |-> << >> ]

NoFrame == [ RxInfo |-> "nil", GatewayId |-> << >> ]

IdlePure ==
    /\ interval = -1
    /\ gw = NoGateway
    /\ frame = NoFrame
    /\ priv = << >>
    /\ id = 0
    /\ netids = << >>

IdleTrust ==
    /\ store = << >>
    /\ trustedGatewaysByLocalID = << >>
    /\ trustedGatewaysByNetworkID = << >>
    /\ rgws = << >>

---------------------------------------------------------------------------
(* dialRPCNode *)

\* The three things the node decides: whether the dial succeeds, whether the
\* eth_chainId call succeeds, and the chain id it reports.
DialAnswers == [ dialOk : BOOLEAN, chainIDOk : BOOLEAN, chainID : ChainIDs ]

\* dialRPCNode(cfg): the returned client, the returned error and the state the
\* connection is left in.
dialRPCNode(c, node) ==
    IF ~node.dialOk
    THEN [ client |-> "nil", err |-> "unable to dial RPC node", conn |-> "none" ]
    ELSE IF ~node.chainIDOk
    THEN [ client |-> "nil", err |-> "unable to determine chain", conn |-> "closed" ]
    ELSE IF node.chainID # c.ChainID
    THEN [ client |-> "nil", err |-> "wrong chain", conn |-> "open" ]
    ELSE [ client |-> "client", err |-> "nil", conn |-> "open" ]

---------------------------------------------------------------------------
(* The updater returned by fetchRoutersFromChain *)

pageSize == 50

\* Entry k of the router registry (the contract's content, fixed in the model).
RegistryRouter(k) == [ Id |-> k, Networks |-> << k, 65536 * k + 1 >> ]

\* registry.RoutersPaged(opts, start, end): the entries start <= k < end that exist
RoutersPaged(count, start, end) ==
    LET ks == Range(start, Min(end, count))
    IN  [ n \in 1..Len(ks) |-> RegistryRouter(ks[n]) ]

\* NewRouter(r.Id, r.Endpoint, false, netids, r.Owner, accounter) in the paging loop
ChainRouter(r) == [ nil |-> FALSE, ID |-> r.Id, NetIDs |-> ChainNetIDs(r.Networks) ]

ChainRouters(fetchedRouters) ==
    [ n \in 1..Len(fetchedRouters) |-> ChainRouter(fetchedRouters[n]) ]

\* every return after a successful dial runs the deferred client.Close()
ChainReturn(e, rs) ==
    /\ pc' = "done"
    /\ err' = e
    /\ routers' = rs
    /\ conn' = "closed"

InitChain ==
    /\ fn = "fetchRoutersFromChain"
    /\ pc = "start"
    /\ cfg \in [ ChainID : {137}, Confirmations : 0..MaxConfirmations,
                 RegistryAddress : {TRUE} ]
    /\ err = "nil"
    /\ i = 0
    /\ routers = << >>
    /\ reads = {}
    /\ head \in 0..MaxHead
    /\ IdleChain
    /\ IdleAPI
    /\ IdleTrust
    /\ IdlePure

\* client, err := dialRPCNode(cfg); if err != nil { return nil, err }
UpdaterDial ==
    /\ fn = "fetchRoutersFromChain"
    /\ pc = "start"
    /\ \E node \in DialAnswers :
        LET d == dialRPCNode(cfg, node)
        IN  /\ client' = d.client
            /\ conn' = d.conn
            /\ err' = d.err
            /\ pc' = IF d.err # "nil" THEN "done" ELSE "dialed"
    /\ UNCHANGED << pureVars, fn, cfg, callOpts, routerCount, i, routers, reads, head,
                    snapshot, trustVars >>

\* head, err := client.HeaderByNumber(ctx, nil) and the confirmed block
UpdaterConfirmedBlock ==
    /\ fn = "fetchRoutersFromChain"
    /\ pc = "dialed"
    /\ \E ok \in BOOLEAN :
        IF ~ok
        THEN /\ ChainReturn("unable to determine chain head", << >>)
             /\ UNCHANGED callOpts
        ELSE IF head < cfg.Confirmations
        THEN /\ ChainReturn("nil", << >>)
             /\ UNCHANGED callOpts
        ELSE /\ callOpts' = [ pinned |-> TRUE,
                              BlockNumber |-> head - cfg.Confirmations ]
             /\ pc' = "confirmed"
             /\ UNCHANGED << err, routers, conn >>
    /\ UNCHANGED << pureVars, fn, cfg, client, routerCount, i, reads, head, snapshot,
                    trustVars >>

\* registry bindings, then routerCount, err := registry.RouterCount(callOpts)
UpdaterRouterCount ==
    /\ fn = "fetchRoutersFromChain"
    /\ pc = "confirmed"
    /\ \E bound \in BOOLEAN, ok \in BOOLEAN, count \in 0..MaxRouterCount :
        IF ~bound
        THEN /\ ChainReturn("unable to instantiate router registry bindings", << >>)
             /\ UNCHANGED << routerCount, reads, i >>
        ELSE /\ reads' = reads \cup {[ call |-> "RouterCount", opts |-> callOpts ]}
             /\ IF ~ok
                THEN /\ ChainReturn("unable to determine router count", << >>)
                     /\ UNCHANGED << routerCount, i >>
                ELSE /\ routerCount' = count
                     /\ i' = 0
                     /\ pc' = "paging"
                     /\ UNCHANGED << err, routers, conn >>
    /\ UNCHANGED << pureVars, fn, cfg, client, callOpts, head, snapshot, trustVars >>

\* the loop condition of: for i := int64(0); i*pageSize < routerCount.Int64(); i += pageSize
PagingContinues(iv, count) == iv * pageSize < count

\* one iteration of the paging loop, or its exit and return routers, nil
UpdaterPage ==
    /\ fn = "fetchRoutersFromChain"
    /\ pc = "paging"
    /\ IF PagingContinues(i, routerCount)
       THEN \E ok \in BOOLEAN :
            /\ reads' = reads \cup {[ call |-> "RoutersPaged", opts |-> callOpts ]}
            /\ IF ~ok
               THEN /\ ChainReturn("unable to retrieve routers from registry", << >>)
                    /\ UNCHANGED i
               ELSE /\ routers' = routers \o
                            ChainRouters(RoutersPaged(routerCount, i, i + pageSize))
                    /\ i' = i + pageSize
                    /\ UNCHANGED << pc, err, conn >>
       ELSE /\ ChainReturn("nil", routers)
            /\ UNCHANGED << i, reads >>
    /\ UNCHANGED << pureVars, fn, cfg, client, callOpts, routerCount, head, snapshot,
                    trustVars >>

NextChain ==
    \/ UpdaterDial
    \/ UpdaterConfirmedBlock
    \/ UpdaterRouterCount
    \/ UpdaterPage

SpecChain == InitChain /\ [][NextChain]_vars

---------------------------------------------------------------------------
(* onboardedAndRegisteredGateways / acceptOnlyOnboardedAndRegistryGateways *)

\* gateways in the inventory: 0..MaxGateways
MaxGateways == 2

\* lorawan.EUI64 values the inventory uses, for local and for network ids
GatewayIDs == {1, 2, 3}

\* common.Address{} and some owner's address
ZeroAddress == 0
Owners == {ZeroAddress, 7}

\* a *gateway.Gateway of the store; its pointer is its position in the store
Gateways == [ LocalGatewayID : GatewayIDs, NetworkGatewayID : GatewayIDs,
              Owner : {ZeroAddress} ]

Inventories == UNION { [ 1..n -> Gateways ] : n \in 0..MaxGateways }

\* what registry.Gateways(nil, gateway.ID()) may answer
RegistryAnswers ==
    [ err : {TRUE}, AntennaGain : {0}, Owner : {ZeroAddress} ] \cup
    [ err : {FALSE}, AntennaGain : {0}, Owner : Owners ] \cup
    [ err : {FALSE}, AntennaGain : {25}, Owner : {7} ]

\* m[k] = v on a Go map
MapPut(m, k, v) == [ x \in (DOMAIN m) \cup {k} |-> IF x = k THEN v ELSE m[x] ]

\* the admission test without the antenna gain: every answered lookup admits
OnboardedWithoutGain(rgw) == rgw.AntennaGain = rgw.AntennaGain

\* if rgw.AntennaGain != 0
Onboarded(rgw) == rgw.AntennaGain # 0

InitTrust ==
    /\ fn = "onboardedAndRegisteredGateways"
    /\ pc = "start"
    /\ cfg \in [ ChainID : {137}, Confirmations : 0..MaxConfirmations,
                 RegistryAddress : BOOLEAN ]
    /\ err = "nil"
    /\ i = 0
    /\ routers = << >>
    /\ reads = {}
    /\ head \in 0..MaxHead
    /\ store \in Inventories
    /\ trustedGatewaysByLocalID = << >>
    /\ trustedGatewaysByNetworkID = << >>
    /\ rgws = << >>
    /\ IdleChain
    /\ IdleAPI
    /\ IdlePure

\* acceptOnlyRegisteredGateways := cfg.Forwarder.Gateways.RegistryAddress != nil,
\* and for the registry policy the head of acceptOnlyOnboardedAndRegistryGateways:
\* ethclient.Dial (a failure is logged, the nil client panics when it is used or
\* closed) and the registry bindings.
TrustSelect ==
    /\ fn = "onboardedAndRegisteredGateways"
    /\ pc = "start"
    /\ IF ~cfg.RegistryAddress
       THEN /\ pc' = "accept-all"
            /\ UNCHANGED << err, conn >>
       ELSE \E dialOk \in BOOLEAN, bindOk \in BOOLEAN :
            IF ~dialOk
            THEN /\ pc' = "panic"
                 /\ UNCHANGED << err, conn >>
            ELSE IF ~bindOk
            THEN /\ pc' = "done"
                 /\ err' = "unable to instantiate gateway registry bindings"
                 /\ conn' = "closed"
            ELSE /\ pc' = "registry"
                 /\ conn' = "open"
                 /\ UNCHANGED err
    /\ UNCHANGED << pureVars, fn, cfg, i, routers, reads, head, snapshot, client, callOpts,
                    routerCount, trustVars >>

\* open policy: one iteration of the loop over store.Gateways(), or the return
TrustAcceptAll ==
    /\ fn = "onboardedAndRegisteredGateways"
    /\ pc = "accept-all"
    /\ IF i < Len(store)
       THEN LET g == i + 1
            IN  /\ trustedGatewaysByLocalID' =
                       MapPut(trustedGatewaysByLocalID, store[g].LocalGatewayID, g)
                /\ trustedGatewaysByNetworkID' =
                       MapPut(trustedGatewaysByNetworkID, store[g].NetworkGatewayID, g)
                /\ i' = g
                /\ UNCHANGED << pc, err >>
       ELSE /\ pc' = "done"
            /\ err' = "nil"
            /\ UNCHANGED << i, trustedGatewaysByLocalID, trustedGatewaysByNetworkID >>
    /\ UNCHANGED << pureVars, fn, cfg, routers, reads, head, snapshot, chainVars, store, rgws >>

\* registry policy: one iteration of the loop over store.Gateways(), or the
\* return of both maps with the outer err, which is nil here
TrustLookup ==
    /\ fn = "onboardedAndRegisteredGateways"
    /\ pc = "registry"
    /\ IF i < Len(store)
       THEN \E rgw \in RegistryAnswers :
            LET g == i + 1
            IN  /\ reads' = reads \cup {[ call |-> "Gateways", opts |-> NoOpts ]}
                /\ rgws' = Append(rgws, rgw)
                /\ i' = g
                /\ IF ~rgw.err /\ Onboarded(rgw)
                   THEN /\ store' = [ store EXCEPT ![g].Owner = rgw.Owner ]
                        /\ trustedGatewaysByLocalID' =
                               MapPut(trustedGatewaysByLocalID,
                                      store[g].LocalGatewayID, g)
                        /\ trustedGatewaysByNetworkID' =
                               MapPut(trustedGatewaysByNetworkID,
                                      store[g].NetworkGatewayID, g)
                   ELSE UNCHANGED << store, trustedGatewaysByLocalID,
                                     trustedGatewaysByNetworkID >>
                /\ UNCHANGED << pc, err, conn >>
       ELSE /\ pc' = "done"
            /\ err' = "nil"
            /\ conn' = "closed"
            /\ UNCHANGED << i, reads, trustVars >>
    /\ UNCHANGED << pureVars, fn, cfg, routers, head, snapshot, client, callOpts, routerCount >>

NextTrust ==
    \/ TrustSelect
    \/ TrustAcceptAll
    \/ TrustLookup

SpecTrust == InitTrust /\ [][NextTrust]_vars

\* every function that reads a registry
InitRegistry == InitChain \/ InitTrust

NextRegistry == NextChain \/ NextTrust

SpecRegistry == InitRegistry /\ [][NextRegistry]_vars

---------------------------------------------------------------------------
(* The updater returned by fetchRoutersFromThingsIXAPI *)

\* router entries in a snapshot: 0..MaxSnapshotRouters
MaxSnapshotRouters == 3

HexDigits == << "0", "1", "2", "3", "4", "5", "6", "7", "8", "9",
                "a", "b", "c", "d", "e", "f" >>

UpperHexDigits == << "A", "B", "C", "D", "E", "F" >>

\* encoding/hex fromHexChar: the value of a hex digit, -1 for any other character
FromHexChar(c) ==
    IF \E n \in 1..16 : HexDigits[n] = c
    THEN (CHOOSE n \in 1..16 : HexDigits[n] = c) - 1
    ELSE IF \E n \in 1..6 : UpperHexDigits[n] = c
    THEN (CHOOSE n \in 1..6 : UpperHexDigits[n] = c) + 9
    ELSE -1

\* hex.DecodeString(str), str a sequence of characters: an error for an odd
\* length or a character that is no hex digit, else one byte per two characters
DecodeString(str) ==
    IF \/ Len(str) % 2 = 1
       \/ \E n \in 1..Len(str) : FromHexChar(str[n]) = -1
    THEN [ err |-> TRUE, bytes |-> << >> ]
    ELSE [ err |-> FALSE,
           bytes |-> [ n \in 1..(Len(str) \div 2) |->
                         16 * FromHexChar(str[2 * n - 1]) + FromHexChar(str[2 * n]) ] ]

\* var id [32]byte
IDSize == 32

\* copy(id[:], rID) into the zeroed id
CopyID(rID) == [ n \in 1..IDSize |-> IF n <= Len(rID) THEN rID[n] ELSE 0 ]

\* a slot of make([]*Router, n) that was never assigned
NilRouter == [ nil |-> TRUE, ID |-> << >>, NetIDs |-> << >> ]

\* NewRouter(id, r.Endpoint, false, netids, r.Owner, accounter) in the snapshot loop
APIRouter(rID, r) ==
    [ nil |-> FALSE, ID |-> CopyID(rID), NetIDs |-> APINetIDs(r.Networks) ]

\* router ids a snapshot may hold: two well-formed, one with a character that
\* is no hex digit, one of odd length
SnapshotIDs == { << "0", "a" >>, << "F", "f", "1", "0" >>, << "0", "x" >>, << "a" >> }

SnapshotRouters == [ ID : SnapshotIDs, Networks : { << 66051 >> } ]

Snapshots ==
    [ ChainID : ChainIDs,
      Routers : UNION { [ 1..n -> SnapshotRouters ] : n \in 0..MaxSnapshotRouters } ]

InitAPI ==
    /\ fn = "fetchRoutersFromThingsIXAPI"
    /\ pc = "start"
    /\ cfg = [ ChainID |-> 137, Confirmations |-> 0, RegistryAddress |-> FALSE ]
    /\ err = "nil"
    /\ i = 0
    /\ routers = << >>
    /\ reads = {}
    /\ head = 0
    /\ snapshot \in Snapshots
    /\ IdleChain
    /\ IdleTrust
    /\ IdlePure

\* http.Get, the JSON decoding, the chain id check, and
\* routers := make([]*Router, len(snapshot.Routers))
APIFetch ==
    /\ fn = "fetchRoutersFromThingsIXAPI"
    /\ pc = "start"
    /\ \E getOk \in BOOLEAN, jsonOk \in BOOLEAN :
        IF ~getOk
        THEN /\ pc' = "done"
             /\ err' = "http"
             /\ UNCHANGED routers
        ELSE IF ~jsonOk
        THEN /\ pc' = "done"
             /\ err' = "json"
             /\ UNCHANGED routers
        ELSE IF snapshot.ChainID # cfg.ChainID
        THEN /\ pc' = "done"
             /\ err' = "router snapshot from wrong chain"
             /\ UNCHANGED routers
        ELSE /\ pc' = "convert"
             /\ routers' = [ n \in 1..Len(snapshot.Routers) |-> NilRouter ]
             /\ UNCHANGED err
    /\ UNCHANGED << pureVars, fn, cfg, i, reads, head, snapshot, chainVars, trustVars >>

\* routers after the iteration of the snapshot loop for entry n (counted from 1)
ConvertEntry(rs, r, n) ==
    LET d == DecodeString(r.ID)
    IN  IF d.err THEN rs ELSE [ rs EXCEPT ![n] = APIRouter(d.bytes, r) ]

\* one iteration of: for i, r := range snapshot.Routers, or return routers, nil
APIConvert ==
    /\ fn = "fetchRoutersFromThingsIXAPI"
    /\ pc = "convert"
    /\ IF i < Len(snapshot.Routers)
       THEN /\ routers' = ConvertEntry(routers, snapshot.Routers[i + 1], i + 1)
            /\ i' = i + 1
            /\ UNCHANGED << pc, err >>
       ELSE /\ pc' = "done"
            /\ err' = "nil"
            /\ UNCHANGED << i, routers >>
    /\ UNCHANGED << pureVars, fn, cfg, reads, head, snapshot, chainVars, trustVars >>

NextAPI ==
    \/ APIFetch
    \/ APIConvert

SpecAPI == InitAPI /\ [][NextAPI]_vars

---------------------------------------------------------------------------
(* Refresh intervals of fetchRoutersFromChain and fetchRoutersFromThingsIXAPI. *)
(* A time.Duration is counted in whole seconds.                                *)

\* configured overrides: unset, or -1..MaxOverride seconds
MaxOverride == 2000

\* time.Minute
Minute == 60

\* cfg...UpdateInterval: a *time.Duration, nil when not configured
Overrides ==
    { [ set |-> FALSE, d |-> 0 ] } \cup [ set : {TRUE}, d : (-1)..MaxOverride ]

\* the on-chain interval with the floor itself rejected (<= for <)
OnChainIntervalFloorRejected(o) ==
    IF o.set
    THEN IF o.d <= Minute THEN 30 * Minute ELSE o.d
    ELSE 30 * Minute

\* interval of fetchRoutersFromChain
OnChainInterval(o) ==
    IF o.set
    THEN IF o.d < Minute THEN 30 * Minute ELSE o.d
    ELSE 30 * Minute

\* interval of fetchRoutersFromThingsIXAPI
ThingsIXInterval(o) ==
    IF o.set
    THEN IF o.d < 15 * Minute THEN 30 * Minute ELSE o.d
    ELSE 30 * Minute

IdleAll ==
    /\ err = "nil"
    /\ i = 0
    /\ routers = << >>
    /\ reads = {}
    /\ head = 0
    /\ IdleChain
    /\ IdleAPI
    /\ IdleTrust

InitInterval ==
    /\ fn \in { "fetchRoutersFromChain", "fetchRoutersFromThingsIXAPI" }
    /\ pc = "config"
    /\ cfg \in [ UpdateInterval : Overrides ]
    /\ IdleAll
    /\ IdlePure

\* fetchRoutersFromChain up to its return of (updater, interval, nil)
OnChainConfig ==
    /\ fn = "fetchRoutersFromChain"
    /\ pc = "config"
    /\ interval' = OnChainInterval(cfg.UpdateInterval)
    /\ pc' = "returned"
    /\ UNCHANGED << fn, cfg, err, i, routers, reads, head, snapshot, chainVars,
                    trustVars, gw, frame, priv, id, netids >>

\* fetchRoutersFromThingsIXAPI up to its return of (updater, interval, nil)
ThingsIXConfig ==
    /\ fn = "fetchRoutersFromThingsIXAPI"
    /\ pc = "config"
    /\ interval' = ThingsIXInterval(cfg.UpdateInterval)
    /\ pc' = "returned"
    /\ UNCHANGED << fn, cfg, err, i, routers, reads, head, snapshot, chainVars,
                    trustVars, gw, frame, priv, id, netids >>

NextInterval ==
    \/ OnChainConfig
    \/ ThingsIXConfig

SpecInterval == InitInterval /\ [][NextInterval]_vars

---------------------------------------------------------------------------
(* Address translation *)

\* hex.EncodeToString(bytes), as a sequence of characters
EncodeToString(bytes) ==
    [ n \in 1..(2 * Len(bytes)) |->
        LET b == bytes[(n + 1) \div 2]
        IN  IF n % 2 = 1 THEN HexDigits[(b \div 16) + 1] ELSE HexDigits[(b % 16) + 1] ]

\* lorawan.EUI64.String()
EUIString(eui) == EncodeToString(eui)

\* the lorawan.EUI64 values of the translated gateways
EUIs == { << 0, 0, 0, 0, 0, 0, 0, 0 >>,
          << 1, 35, 69, 103, 137, 171, 205, 239 >>,
          << 239, 205, 171, 137, 103, 69, 35, 1 >>,
          << 255, 255, 255, 255, 255, 255, 255, 255 >> }

\* the gateway argument: nil for a gateway the trust maps do not hold
GatewayArgs ==
    { NoGateway } \cup
    [ nil : {FALSE}, LocalGatewayID : EUIs, NetworkGatewayID : EUIs ]

\* the frame argument: RxInfo is a pointer of the uplink frame, and the
\* gateway id the frame arrives with
FrameArgs == [ RxInfo : {"nil", "set"}, GatewayId : { EUIString(e) : e \in EUIs } ]

InitTranslate ==
    /\ fn \in { "localUplinkFrameToNetwork", "localDownlinkTxAckToNetwork",
                "networkDownlinkFrameToLocal" }
    /\ pc = "call"
    /\ cfg = [ ChainID |-> 137 ]
    /\ gw \in GatewayArgs
    /\ frame \in FrameArgs
    /\ interval = -1
    /\ priv = << >>
    /\ id = 0
    /\ netids = << >>
    /\ IdleAll

\* frame.RxInfo.GatewayId = gw.NetworkGatewayID.String(); return frame, nil
localUplinkFrameToNetwork ==
    /\ fn = "localUplinkFrameToNetwork"
    /\ pc = "call"
    /\ IF gw.nil \/ frame.RxInfo = "nil"
       THEN /\ pc' = "panic"
            /\ UNCHANGED frame
       ELSE /\ pc' = "returned"
            /\ frame' = [ frame EXCEPT !.GatewayId = EUIString(gw.NetworkGatewayID) ]
    /\ UNCHANGED << fn, cfg, err, i, routers, reads, head, snapshot, chainVars,
                    trustVars, interval, gw, priv, id, netids >>

\* txack.GatewayId = gw.NetworkGatewayID.String(); return txack, nil
localDownlinkTxAckToNetwork ==
    /\ fn = "localDownlinkTxAckToNetwork"
    /\ pc = "call"
    /\ IF gw.nil
       THEN /\ pc' = "panic"
            /\ UNCHANGED frame
       ELSE /\ pc' = "returned"
            /\ frame' = [ frame EXCEPT !.GatewayId = EUIString(gw.NetworkGatewayID) ]
    /\ UNCHANGED << fn, cfg, err, i, routers, reads, head, snapshot, chainVars,
                    trustVars, interval, gw, priv, id, netids >>

\* frame.GatewayId = gw.LocalGatewayID.String(); return frame
networkDownlinkFrameToLocal ==
    /\ fn = "networkDownlinkFrameToLocal"
    /\ pc = "call"
    /\ IF gw.nil
       THEN /\ pc' = "panic"
            /\ UNCHANGED frame
       ELSE /\ pc' = "returned"
            /\ frame' = [ frame EXCEPT !.GatewayId = EUIString(gw.LocalGatewayID) ]
    /\ UNCHANGED << fn, cfg, err, i, routers, reads, head, snapshot, chainVars,
                    trustVars, interval, gw, priv, id, netids >>

NextTranslate ==
    \/ localUplinkFrameToNetwork
    \/ localDownlinkTxAckToNetwork
    \/ networkDownlinkFrameToLocal

SpecTranslate == InitTranslate /\ [][NextTranslate]_vars

---------------------------------------------------------------------------
(* Gateway identifiers (gateway/gateway.go).                                  *)
(* secp256k1 is y^2 = x^3 + 7 over a 256-bit prime field; the model keeps the *)
(* curve equation and the group law over the field of FieldP elements, where  *)
(* the curve has the prime order CurveOrder and the base point BasePoint.     *)

FieldP == 43
CurveOrder == 31
BasePoint == [ inf |-> FALSE, x |-> 2, y |-> 12 ]
Infinity == [ inf |-> TRUE, x |-> 0, y |-> 0 ]

PrivateKeys == 1..(CurveOrder - 1)

ModInv(a) == CHOOSE b \in 1..(FieldP - 1) : (a * b) % FieldP = 1

\* the group law of the curve
PointAdd(P, Q) ==
    IF P.inf THEN Q
    ELSE IF Q.inf THEN P
    ELSE IF P.x = Q.x /\ (P.y + Q.y) % FieldP = 0 THEN Infinity
    ELSE LET l == IF P.x = Q.x
                  THEN (3 * P.x * P.x * ModInv((2 * P.y) % FieldP)) % FieldP
                  ELSE ((Q.y - P.y) * ModInv((Q.x - P.x) % FieldP)) % FieldP
             x == (l * l - P.x - Q.x) % FieldP
         IN  [ inf |-> FALSE, x |-> x, y |-> (l * (P.x - x) - P.y) % FieldP ]

RECURSIVE ScalarBaseMult(_)
ScalarBaseMult(k) ==
    IF k = 0 THEN Infinity ELSE PointAdd(BasePoint, ScalarBaseMult(k - 1))

\* priv.PublicKey
PublicKey(d) == ScalarBaseMult(d)

\* a field element as the 32 bytes of a coordinate, big endian
CoordinateBytes(c) == [ n \in 1..32 |-> IF n = 32 THEN c ELSE 0 ]

\* crypto.CompressPubkey(pub): the parity byte 0x02 or 0x03, then X
CompressPubkey(pub) == << 2 + (pub.y % 2) >> \o CoordinateBytes(pub.x)

\* crypto.CompressPubkey(pub)[1:]
CalculateCompressedPublicKeyBytes(pub) == Tail(CompressPubkey(pub))

\* sha256.Sum256 stands as a 32-byte digest of a polynomial fold of the input
RECURSIVE Fold(_, _)
Fold(bytes, acc) ==
    IF bytes = << >> THEN acc
    ELSE Fold(Tail(bytes), (acc * 31 + Head(bytes) + 1) % 65521)

Sum256(bytes) ==
    LET f == Fold(bytes, 7)
    IN  [ n \in 1..32 |-> ((f + n) * (f + 3 * n + 1)) % 256 ]

\* utils.BytesToGatewayID(h[0:8])
CalculateNetworkGatewayID(d) ==
    LET h == Sum256(CalculateCompressedPublicKeyBytes(PublicKey(d)))
    IN  SubSeq(h, 1, 8)

\* NewGateway(localGatewayID, priv)
NewGateway(localGatewayID, d) ==
    [ LocalGatewayID |-> localGatewayID,
      NetworkGatewayID |-> CalculateNetworkGatewayID(d),
      PrivateKey |-> d,
      PublicKey |-> PublicKey(d),
      CompressedPublicKeyBytes |-> CalculateCompressedPublicKeyBytes(PublicKey(d)),
      Owner |-> ZeroAddress ]

\* Gateway.ID(): copy(id[:], gw.CompressedPublicKeyBytes)
GatewayID(g) == CopyID(g.CompressedPublicKeyBytes)

InitIdentity ==
    /\ fn = "NewGateway"
    /\ pc = "call"
    /\ cfg = [ ChainID |-> 137 ]
    /\ priv \in PrivateKeys \X PrivateKeys
    /\ interval = -1
    /\ gw = NoGateway
    /\ frame = NoFrame
    /\ id = 0
    /\ netids = << >>
    /\ IdleAll

\* a gateway is made from each of the two keys
NewGateways ==
    /\ fn = "NewGateway"
    /\ pc = "call"
    /\ store' = << NewGateway(1, priv[1]), NewGateway(2, priv[2]) >>
    /\ pc' = "returned"
    /\ UNCHANGED << fn, cfg, err, i, routers, reads, head, snapshot, chainVars,
                    trustedGatewaysByLocalID, trustedGatewaysByNetworkID, rgws,
                    pureVars >>

NextIdentity == NewGateways

SpecIdentity == InitIdentity /\ [][NextIdentity]_vars

---------------------------------------------------------------------------
(* The NetID both router sources decode a network id to *)

\* the bytes network ids are made of
SampleBytes == {0, 1, 127, 255}

\* network ids: every combination of the sample bytes, the top byte below 128
NetworkIDs ==
    { b3 * (2 ^ 24) + b2 * (2 ^ 16) + b1 * (2 ^ 8) + b0 :
        b3 \in SampleBytes \ {255}, b2 \in SampleBytes, b1 \in SampleBytes,
        b0 \in SampleBytes }

InitNetID ==
    /\ fn = "netids"
    /\ pc = "call"
    /\ cfg = [ ChainID |-> 137 ]
    /\ id \in NetworkIDs
    /\ interval = -1
    /\ gw = NoGateway
    /\ frame = NoFrame
    /\ priv = << >>
    /\ netids = << >>
    /\ IdleAll

\* the body of the loop over r.Networks in each of the two updaters
DecodeNetID ==
    /\ fn = "netids"
    /\ pc = "call"
    /\ netids' = [ chain |-> ChainNetID(id), api |-> APINetID(id) ]
    /\ pc' = "returned"
    /\ UNCHANGED << fn, cfg, err, i, routers, reads, head, snapshot, chainVars,
                    trustVars, interval, gw, frame, priv, id >>

NextNetID == DecodeNetID

SpecNetID == InitNetID /\ [][NextNetID]_vars

---------------------------------------------------------------------------
(* Properties *)

\* C1: when the on-chain refresh returns a list without error, the list holds
\* exactly routerCount routers, each registry entry 0..routerCount-1 exactly once.
C1_EveryRouterOnce ==
    (fn = "fetchRoutersFromChain" /\ pc = "done" /\ err = "nil" /\ routerCount >= 0)
        => /\ Len(routers) = routerCount
           /\ \A k \in 0..(routerCount - 1) :
                Cardinality({ n \in 1..Len(routers) : routers[n].ID = k }) = 1

\* the entries of the snapshot whose id is valid hex, in snapshot order
WellFormedEntries ==
    SelectSeq(snapshot.Routers, LAMBDA r : ~DecodeString(r.ID).err)

\* C2: when the snapshot refresh returns without error, the list holds one
\* router per well-formed entry, in snapshot order, and no nil slot.
C2_MalformedEntriesSkipped ==
    (fn = "fetchRoutersFromThingsIXAPI" /\ pc = "done" /\ err = "nil")
        => /\ Len(routers) = Len(WellFormedEntries)
           /\ \A n \in 1..Len(routers) :
                /\ ~routers[n].nil
                /\ n <= Len(WellFormedEntries)
                /\ routers[n] = APIRouter(DecodeString(WellFormedEntries[n].ID).bytes,
                                          WellFormedEntries[n])

\* gateway g (a position of the store) is the value at its key of the map
AtLocalID(g) ==
    /\ store[g].LocalGatewayID \in DOMAIN trustedGatewaysByLocalID
    /\ trustedGatewaysByLocalID[store[g].LocalGatewayID] = g

AtNetworkID(g) ==
    /\ store[g].NetworkGatewayID \in DOMAIN trustedGatewaysByNetworkID
    /\ trustedGatewaysByNetworkID[store[g].NetworkGatewayID] = g

TrustBuilt ==
    /\ fn = "onboardedAndRegisteredGateways"
    /\ pc = "done"
    /\ err = "nil"

\* C3: in the two maps a trust build returns, a gateway is the value at its
\* local id exactly when it is the value at its network id, and under the open
\* policy every gateway of the inventory is in both maps.
C3_MapsAgree ==
    TrustBuilt
        => /\ \A g \in 1..Len(store) : AtLocalID(g) <=> AtNetworkID(g)
           /\ ~cfg.RegistryAddress
                => \A g \in 1..Len(store) : AtLocalID(g) /\ AtNetworkID(g)

DistinctIDs ==
    \A g \in 1..Len(store), h \in 1..Len(store) :
        g # h => /\ store[g].LocalGatewayID # store[h].LocalGatewayID
                 /\ store[g].NetworkGatewayID # store[h].NetworkGatewayID

RegistryBuildReturned ==
    /\ fn = "onboardedAndRegisteredGateways"
    /\ cfg.RegistryAddress
    /\ pc = "done"
    /\ err # "unable to instantiate gateway registry bindings"

\* C4: under the registry policy with distinct gateway ids, the build looks every
\* gateway up, returns no error, and a gateway is in both maps if its own lookup
\* succeeded with a non-zero antenna gain and in neither map otherwise.
C4_AdmissionPerGateway ==
    (RegistryBuildReturned /\ DistinctIDs)
        => /\ err = "nil"
           /\ Len(rgws) = Len(store)
           /\ \A g \in 1..Len(store) :
                IF ~rgws[g].err /\ rgws[g].AntennaGain # 0
                THEN AtLocalID(g) /\ AtNetworkID(g)
                ELSE ~AtLocalID(g) /\ ~AtNetworkID(g)

\* C4 witness: a finished registry build over two gateways with distinct ids,
\* the first lookup failed, the second gateway admitted
C4_Witness ==
    /\ RegistryBuildReturned
    /\ DistinctIDs
    /\ Len(store) = 2
    /\ Len(rgws) = 2
    /\ rgws[1].err
    /\ ~rgws[2].err
    /\ rgws[2].AntennaGain # 0
    /\ AtLocalID(2)
    /\ AtNetworkID(2)

\* C5: every registry read is made at the confirmed block, the chain head minus
\* the configured confirmations.
C5_ReadsAtConfirmedBlock ==
    \A r \in reads :
        /\ r.opts.pinned
        /\ r.opts.BlockNumber = head - cfg.Confirmations

DialErrors == { "unable to dial RPC node", "unable to determine chain", "wrong chain" }

\* C6: when dialRPCNode returned an error it returned no client and left no
\* connection open, and it returns a client only for the configured chain id.
C6_FailedDialLeavesNoConnection ==
    fn = "fetchRoutersFromChain" /\ pc \in { "dialed", "done" }
        => /\ (pc = "done" /\ err \in DialErrors) => (client = "nil" /\ conn # "open")
           /\ \A node \in DialAnswers :
                dialRPCNode(cfg, node).client = "client" => node.chainID = cfg.ChainID

IntervalReturned ==
    /\ fn \in { "fetchRoutersFromChain", "fetchRoutersFromThingsIXAPI" }
    /\ pc = "returned"

\* the interval for a source whose minimum is floor
Clamped(o, floor) == IF o.set /\ o.d >= floor THEN o.d ELSE 30 * Minute

\* C7 as stated: the returned interval is the override when it is at or above
\* the source's minimum, 30 minutes on chain and 15 minutes for the API, and
\* the 30-minute default otherwise.
C7_ClampedToStatedMinimum ==
    IntervalReturned
        => IF fn = "fetchRoutersFromChain"
           THEN /\ interval = Clamped(cfg.UpdateInterval, 30 * Minute)
                /\ interval >= 30 * Minute
           ELSE /\ interval = Clamped(cfg.UpdateInterval, 15 * Minute)
                /\ interval >= 15 * Minute

\* C7 amended: the returned interval is the override when it is at or above
\* the source's floor, 1 minute on chain and 15 minutes for the API, and the
\* 30-minute default otherwise; no source returns an interval below its floor.
C7_ClampedToFloor ==
    IntervalReturned
        => IF fn = "fetchRoutersFromChain"
           THEN /\ interval = Clamped(cfg.UpdateInterval, Minute)
                /\ interval >= Minute
           ELSE /\ interval = Clamped(cfg.UpdateInterval, 15 * Minute)
                /\ interval >= 15 * Minute

\* C7 witness: the on-chain source returned an override between its floor and
\* the default
C7_Witness ==
    /\ fn = "fetchRoutersFromChain"
    /\ pc = "returned"
    /\ cfg.UpdateInterval.set
    /\ cfg.UpdateInterval.d >= Minute
    /\ cfg.UpdateInterval.d < 30 * Minute
    /\ interval = cfg.UpdateInterval.d

Translators == { "localUplinkFrameToNetwork", "localDownlinkTxAckToNetwork",
                 "networkDownlinkFrameToLocal" }

\* C8: a translation for a known gateway sets the gateway id of the frame to
\* the network id (inbound, ack) or the local id (outbound); with an unknown
\* gateway it returns an error and does not crash.
C8_TranslationOrDenial ==
    (fn \in Translators /\ pc # "call")
        => IF gw.nil
           THEN pc = "returned" /\ err # "nil"
           ELSE pc = "returned"
                    => frame.GatewayId =
                         IF fn = "networkDownlinkFrameToLocal"
                         THEN EUIString(gw.LocalGatewayID)
                         ELSE EUIString(gw.NetworkGatewayID)

\* C9: gateways made from two different private keys have different network
\* ids and different registry ids.
C9_DistinctKeysDistinctIDs ==
    (fn = "NewGateway" /\ pc = "returned" /\ priv[1] # priv[2])
        => /\ store[1].NetworkGatewayID # store[2].NetworkGatewayID
           /\ GatewayID(store[1]) # GatewayID(store[2])

\* C10: both sources decode a network id to the same NetID.
C10_SourcesDecodeAlike ==
    (fn = "netids" /\ pc = "returned") => netids.chain = netids.api

===========================================================================
